---- MODULE Spec2Model ----
(***************************************************************************)
(* Model of the s/z preposition checker (src/src/commands/preposition.js, *)
(* src/src/commands/commands.js and the two-class variant of               *)
(* src/unnamed/part_006).                                                  *)
(*                                                                         *)
(* Text is a sequence of characters; a character is a one-element string.  *)
(* Non-ASCII characters are written with ASCII names:                      *)
(*   "c^" = c with caron (U+010D)     "s^" = s with caron (U+0161)         *)
(*   "z^" = z with caron (U+017E)     "t^" = t with caron (U+0165)         *)
(*   "h^", "k^", "a^", "d^", "S^", "D^" likewise (precomposed letters)     *)
(*   "CARON" = the combining caron U+030C      "TAB" = U+0009              *)
(***************************************************************************)
EXTENDS Integers, Sequences, FiniteSets, TLC

VARIABLES
  rawWord,       \* rule engine run: the argument of determineCorrectPreposition
  result,        \* rule engine run: its return value, "pending" before the call
  doc,           \* host document: the sequence of its text runs (words)
  hl,            \* host document: highlight colour of each text run
  sel,           \* host document: the selected text run, 0 when none was selected
  notif,         \* ribbon notification shown under NOTIF_ID
  errors,        \* state.errors: sequence of [range, suggestion]
  currentIndex,  \* state.currentIndex
  isChecking,    \* state.isChecking
  inflight,      \* the invocations suspended at an await, oldest first
  place,         \* host document: where each text run lies (body, table, header ...)
  last           \* history: the last operation, its outcome and the state before it

vars == <<rawWord, result, doc, hl, sel, notif, errors, currentIndex, isChecking,
          inflight, place, last>>

ruleVars == <<rawWord, result>>
sessionVars == <<doc, hl, sel, notif, errors, currentIndex, isChecking,
                 inflight, place, last>>
\* what a command that runs in one piece on a body-only document leaves alone
otherVars == <<rawWord, result, inflight, place>>

(***************************************************************************)
(* Bounds                                                                  *)
(***************************************************************************)
MaxLen == 2      \* longest next-word text given to the rule engine run
MaxTokens == 3   \* longest document, in text runs
MaxOverlap == 2  \* most invocations suspended at an await at one time

(***************************************************************************)
(* Characters                                                              *)
(***************************************************************************)
LowerLetters == {"c", "c^", "f", "h", "k", "p", "s", "s^", "t",
                 "a", "d", "e", "g", "n", "o", "z", "z^",
                 "h^", "k^", "t^", "a^", "d^"}
UpperLetters == {"S", "Z", "D", "S^", "D^", "K", "H", "G"}
Letters == LowerLetters \cup UpperLetters
Digits == {"0", "1", "2", "3", "4", "5", "6", "7", "8", "9"}
Whitespace == {" ", "TAB"}
Punctuation == {".", "(", "-"}
Marks == {"CARON"}

Null == "null"
NoMatch == "nomatch"

\* String.prototype.toLowerCase, one character
LowerOf(c) ==
  CASE c = "S" -> "s"
    [] c = "Z" -> "z"
    [] c = "D" -> "d"
    [] c = "S^" -> "s^"
    [] c = "D^" -> "d^"
    [] c = "K" -> "k"
    [] c = "H" -> "h"
    [] c = "G" -> "g"
    [] OTHER -> c

\* String.prototype.toUpperCase, one character (of the letters a token can hold)
UpperOf(c) ==
  CASE c = "s" -> "S"
    [] c = "z" -> "Z"
    [] c = "d" -> "D"
    [] c = "s^" -> "S^"
    [] c = "d^" -> "D^"
    [] c = "k" -> "K"
    [] c = "h" -> "H"
    [] c = "g" -> "G"
    [] OTHER -> c

toLowerCase(w) == [i \in 1..Len(w) |-> LowerOf(w[i])]
toUpperCase(w) == [i \in 1..Len(w) |-> UpperOf(w[i])]

\* Canonical composition of a base letter with a following combining caron,
\* for the letters of this alphabet that have a precomposed form.
Composable == {"c", "h", "k", "s", "t", "a", "d", "z", "S", "D"}
Composed(b) ==
  CASE b = "c" -> "c^"
    [] b = "h" -> "h^"
    [] b = "k" -> "k^"
    [] b = "s" -> "s^"
    [] b = "t" -> "t^"
    [] b = "a" -> "a^"
    [] b = "d" -> "d^"
    [] b = "z" -> "z^"
    [] b = "S" -> "S^"
    [] b = "D" -> "D^"
    [] OTHER -> b

\* String.prototype.normalize("NFC"): a combining mark composes with the
\* character before it when that pair has a precomposed form.
RECURSIVE NfcFrom(_, _, _)
NfcFrom(w, i, acc) ==
  IF i > Len(w) THEN acc
  ELSE IF w[i] \in Marks /\ Len(acc) > 0 /\ acc[Len(acc)] \in Composable
       THEN NfcFrom(w, i + 1, [acc EXCEPT ![Len(acc)] = Composed(acc[Len(acc)])])
       ELSE NfcFrom(w, i + 1, Append(acc, w[i]))

normalizeNFC(w) == NfcFrom(w, 1, <<>>)

\* String.prototype.trim
RECURSIVE TrimLeft(_)
TrimLeft(w) ==
  IF w /= <<>> /\ Head(w) \in Whitespace THEN TrimLeft(Tail(w)) ELSE w

RECURSIVE TrimRight(_)
TrimRight(w) ==
  IF w /= <<>> /\ w[Len(w)] \in Whitespace
  THEN TrimRight(SubSeq(w, 1, Len(w) - 1)) ELSE w

trim(w) == TrimRight(TrimLeft(w))

(***************************************************************************)
(* Rule engine: determineCorrectPreposition                                *)
(***************************************************************************)
voiceless == {"c", "c^", "f", "h", "k", "p", "s", "s^", "t"}

digitMapSevenAsE ==
  [c \in Digits |->
     CASE c = "1" -> "e" [] c = "2" -> "d" [] c = "3" -> "t" [] c = "4" -> "s^"
       [] c = "5" -> "p" [] c = "6" -> "s^" [] c = "7" -> "e" [] c = "8" -> "o"
       [] c = "9" -> "d" [] c = "0" -> "n"]
digitMap ==
  [c \in Digits |->
     CASE c = "1" -> "e" [] c = "2" -> "d" [] c = "3" -> "t" [] c = "4" -> "s^"
       [] c = "5" -> "p" [] c = "6" -> "s^" [] c = "7" -> "s" [] c = "8" -> "o"
       [] c = "9" -> "d" [] c = "0" -> "n"]

\* w.match(/[\p{L}0-9]/u): the first character that is a letter or a digit
RECURSIVE MatchFrom(_, _)
MatchFrom(w, i) ==
  IF i > Len(w) THEN NoMatch
  ELSE IF w[i] \in Letters \cup Digits THEN w[i]
  ELSE MatchFrom(w, i + 1)

matchLetterOnly(w) ==
  IF \E i \in 1..Len(w) : w[i] \in Letters
  THEN w[CHOOSE i \in 1..Len(w) :
           w[i] \in Letters /\ \A j \in 1..(i - 1) : w[j] \notin Letters]
  ELSE NoMatch
matchLetterOrDigit(w) == MatchFrom(w, 1)

determineNoLowerCase(w) ==
  IF w = <<>> THEN Null
  ELSE LET m == matchLetterOrDigit(normalizeNFC(w)) IN
       IF m = NoMatch THEN Null
       ELSE LET key == IF m \in Digits THEN digitMap[m] ELSE m IN
            IF key \in voiceless THEN "s" ELSE "z"
determineCorrectPreposition(w) ==
  IF w = <<>> THEN Null
  ELSE LET m == matchLetterOrDigit(normalizeNFC(w)) IN
       IF m = NoMatch THEN Null
       ELSE LET c == LowerOf(m)
                key == IF c \in Digits THEN digitMap[c] ELSE c
            IN IF key \in voiceless THEN "s" ELSE "z"

(***************************************************************************)
(* Rule engine run: one call of determineCorrectPreposition on a text      *)
(***************************************************************************)
RuleChars == {"c", "c^", "f", "h", "k", "p", "s", "s^", "t",
              "a", "d", "z", "z^", "S", "D"}
             \cup Digits \cup {".", "(", " ", "CARON"}

RuleWords == UNION {[1..n -> RuleChars] : n \in 0..MaxLen}

NoDoc == <<>>
NoLast == [op |-> "none", ok |-> TRUE, doc |-> <<>>, hl |-> <<>>, sel |-> 0,
           errors |-> <<>>, currentIndex |-> 0, round |-> 0, fixed |-> {},
           twice |-> FALSE, reentered |-> FALSE, completed |-> TRUE,
           rejected |-> {}]

SessionIdle ==
  /\ doc = NoDoc /\ hl = <<>> /\ sel = 0 /\ notif = "none"
  /\ errors = <<>> /\ currentIndex = 0 /\ isChecking = FALSE
  /\ inflight = <<>> /\ place = <<>>
  /\ last = NoLast

RuleInit ==
  /\ rawWord \in RuleWords
  /\ result = "pending"
  /\ SessionIdle

CallRule ==
  /\ result = "pending"
  /\ result' = determineCorrectPreposition(rawWord)
  /\ UNCHANGED <<rawWord>>
  /\ UNCHANGED sessionVars

RuleNext == CallRule

SpecRule == RuleInit /\ [][RuleNext]_vars

(***************************************************************************)
(* Host document (Document Access): a sequence of text runs separated by   *)
(* delimiters.  A Word.Range is the position of a text run; replacing a    *)
(* run's text keeps every position (tracked ranges).                       *)
(***************************************************************************)
HIGHLIGHT_COLOR == "#FFC0CB"
NoColor == "null"

Vocab == {<<"s">>, <<"z">>, <<"S">>, <<"p", "a">>, <<"d", "a">>, <<"-">>}
Docs == UNION {[1..n -> Vocab] : n \in 1..MaxTokens}

\* body.search(letter, {matchWholeWord: true, matchCase: false}).items:
\* the ranges whose text is the letter, in document order
RECURSIVE SearchFrom(_, _, _)
SearchFrom(d, letter, i) ==
  IF i > Len(d) THEN <<>>
  ELSE (IF toLowerCase(d[i]) = <<letter>> THEN <<i>> ELSE <<>>)
       \o SearchFrom(d, letter, i + 1)

search(d, letter) == SearchFrom(d, letter, 1)

\* r.getRange("After").getNextTextRange([" ", "\n", ".", ",", ";", "?", "!"], true).text:
\* the text run after r, empty when r is the last one
getNextTextRange(d, r) == IF r < Len(d) THEN d[r + 1] ELSE <<>>

\* One queued request of a batch; context.sync() sends the batch.
TextWrite(r, c) == [kind |-> "text", range |-> r, value |-> <<c>>]
HlWrite(r, c) == [kind |-> "hl", range |-> r, value |-> c]
SelectWrite(r) == [kind |-> "select", range |-> r, value |-> NoColor]

ApplyWrite(st, w) ==
  CASE w.kind = "text" -> [st EXCEPT !.doc[w.range] = w.value]
    [] w.kind = "hl" -> [st EXCEPT !.hl[w.range] = w.value]
    [] w.kind = "select" -> [st EXCEPT !.sel = w.range]

\* The host applies the first m requests of a batch (all of them when the
\* sync succeeds, those before the failing request when it fails).
RECURSIVE ApplyWrites(_, _, _)
ApplyWrites(st, ws, m) ==
  IF m = 0 \/ ws = <<>> THEN st
  ELSE ApplyWrites(ApplyWrite(st, Head(ws)), Tail(ws), m - 1)

Sync(st, ws) == ApplyWrites(st, ws, Len(ws))

Host == [doc |-> doc, hl |-> hl, sel |-> sel]

\* Which context.sync() of an operation fails: 0 is none
NoFailure == {0}
AnyFailure == Nat

(***************************************************************************)
(* Splice variant (preposition.js lines 1-224)                             *)
(***************************************************************************)
\* lines 59-66
candidates(d) ==
  SelectSeq(search(d, "s") \o search(d, "z"),
            LAMBDA r : toLowerCase(trim(d[r])) \in {<<"s">>, <<"z">>})

\* lines 75-80: the verdict on one candidate
IsMismatchNoEmptyCheck(d, r) ==
  toLowerCase(trim(d[r])) /= <<determineCorrectPreposition(trim(getNextTextRange(d, r)))>>
IsMismatch(d, r) ==
  LET nxt == trim(getNextTextRange(d, r))
      actual == toLowerCase(trim(d[r]))
      expected == determineCorrectPreposition(nxt)
  IN nxt /= <<>> /\ expected /= Null /\ actual /= <<expected>>

\* line 83
Suggestion(d, r) == determineCorrectPreposition(trim(getNextTextRange(d, r)))

\* lines 69-85: state.errors after the first k candidates were evaluated
RECURSIVE Found(_, _, _)
Found(d, cands, k) ==
  IF k <= 0 THEN <<>>
  ELSE Found(d, cands, k - 1)
       \o (IF IsMismatch(d, cands[k])
           THEN <<[range |-> cands[k], suggestion |-> Suggestion(d, cands[k])]>>
           ELSE <<>>)

Ranges(q) == {q[i].range : i \in 1..Len(q)}

HlWrites(es, c) == [i \in 1..Len(es) |-> HlWrite(es[i].range, c)]

\* The requests queued between the sync of candidate k - 1 and the sync of
\* candidate k (k = Len(cands) + 1: the sync after select())
PendingAt(d, cands, k) ==
  (IF k >= 2 /\ IsMismatch(d, cands[k - 1])
   THEN <<HlWrite(cands[k - 1], HIGHLIGHT_COLOR)>> ELSE <<>>)
  \o (IF k = Len(cands) + 1
      THEN <<SelectWrite(Found(d, cands, Len(cands))[1].range)>> ELSE <<>>)

\* Number of context.sync() calls of a scan that runs to its end: the one
\* after clearing, the one after the search, one per candidate, and the one
\* after select() when a mismatch was found.
ScanSyncs(d) ==
  LET cands == candidates(d) IN
  2 + Len(cands) + (IF Found(d, cands, Len(cands)) /= <<>> THEN 1 ELSE 0)

\* The numbers of requests the host may have applied when sync f of a scan
\* fails.  The batch of a candidate ends with a read (getNextTextRange), the
\* last batch holds writes only.
ScanApplied(d, f) ==
  LET cands == candidates(d) IN
  IF f <= 2 THEN {0}
  ELSE IF f - 2 = Len(cands) + 1 THEN 0..(Len(PendingAt(d, cands, f - 2)) - 1)
  ELSE 0..Len(PendingAt(d, cands, f - 2))

\* lines 40-111 from the guard on.  f = 0: no sync fails; f > 0: the f-th
\* sync fails after the host applied m requests of its batch.  thrown: the
\* failure leaves the function (never: lines 102-107 catch it).
ScanOutcome(st, f, m) ==
  LET d == st.doc
      cands == candidates(d)
      all == Found(d, cands, Len(cands))
  IN
  IF f = 0 THEN
    [errors |-> all,
     host |-> IF all = <<>> THEN st
              ELSE Sync(st, HlWrites(all, HIGHLIGHT_COLOR) \o <<SelectWrite(all[1].range)>>),
     notif |-> IF all = <<>> THEN "noMismatches" ELSE "none",
     ok |-> TRUE, thrown |-> FALSE]
  ELSE IF f <= 2 THEN
    [errors |-> <<>>, host |-> st, notif |-> "checkFailed", ok |-> FALSE,
     thrown |-> FALSE]
  ELSE
    [errors |-> Found(d, cands, f - 3),
     host |-> ApplyWrites(Sync(st, HlWrites(Found(d, cands, f - 4), HIGHLIGHT_COLOR)),
                          PendingAt(d, cands, f - 2), m),
     notif |-> "checkFailed",
     ok |-> FALSE, thrown |-> FALSE]

\* History: the operation, whether it ran without a failure, the state it
\* started from, how far the run scan, acceptAll, scan has got, for a
\* scan that follows an acceptAll the locations that acceptAll had queued,
\* whether the scan follows a scan, whether a call was turned away while the
\* scan was in flight, and whether the ribbon handler reached
\* event.completed().
Before(op, ok) ==
  [op |-> op, ok |-> ok, doc |-> doc, hl |-> hl, sel |-> sel,
   errors |-> errors, currentIndex |-> currentIndex,
   round |-> CASE ~ok -> 0
               [] op = "scan" -> IF last.round = 2 THEN 3 ELSE 1
               [] op = "acceptAll" -> IF last.round \in {1, 3} THEN 2 ELSE 0
               [] OTHER -> 0,
   fixed |-> IF op = "scan" /\ last.op = "acceptAll" /\ last.ok
             THEN {last.errors[i].range : i \in 1..Len(last.errors)} ELSE {},
   twice |-> op = "scan" /\ ok /\ last.op = "scan" /\ last.ok,
   reentered |-> FALSE,
   completed |-> TRUE,
   rejected |-> {}]

SetHost(st) == doc' = st.doc /\ hl' = st.hl /\ sel' = st.sel

\* commands.js lines 14-46: await the operation, then event.completed(); an
\* exception that leaves the operation skips event.completed()
Handler(op, ok, thrown) == [Before(op, ok) EXCEPT !.completed = ~thrown]

\* lines 40-111
checkDocumentTextKeepsQueue(F) ==
  \E f \in {x \in 0..ScanSyncs(doc) : x \in F} :
    \E m \in ScanApplied(doc, f) :
      \E o \in {ScanOutcome(Host, f, m)} :
        /\ errors' = errors \o o.errors
        /\ currentIndex' = 0
        /\ SetHost(o.host)
        /\ notif' = o.notif
        /\ isChecking' = FALSE
        /\ last' = Handler("scan", o.ok, o.thrown)
checkDocumentText(F) ==
  IF isChecking
  THEN /\ last' = Before("scan", TRUE)
       /\ UNCHANGED <<doc, hl, sel, notif, errors, currentIndex, isChecking>>
  ELSE \E f \in {x \in 0..ScanSyncs(doc) : x \in F} :
         \E m \in ScanApplied(doc, f) :
           \E o \in {ScanOutcome(Host, f, m)} :
             /\ errors' = o.errors
             /\ currentIndex' = 0
             /\ SetHost(o.host)
             /\ notif' = o.notif
             /\ isChecking' = FALSE
             /\ last' = Handler("scan", o.ok, o.thrown)

SpliceKeepsEntry(q, i) == q
SpliceAt(q, i) == SubSeq(q, 1, i) \o SubSeq(q, i + 2, Len(q))

\* lines 116-139.  f = 1: the sync of step 1 fails after the host applied m
\* requests; f = 2: the sync of step 2 fails.  Neither Word.run is inside a
\* try, so a failure leaves the function.
AcceptOneOutcomeNoText(st, q, ci, f, m) ==
  LET removed == q[ci + 1]
      rest == SpliceAt(q, ci)
      st1 == Sync(st, <<HlWrite(removed.range, NoColor)>>)
  IN [errors |-> rest, host |-> st1, ok |-> f = 0, thrown |-> f /= 0]
AcceptOneOutcome(st, q, ci, f, m) ==
  LET removed == q[ci + 1]
      rest == SpliceAt(q, ci)
      batch1 == <<TextWrite(removed.range, removed.suggestion),
                  HlWrite(removed.range, NoColor)>>
      st1 == IF f = 1 THEN ApplyWrites(st, batch1, m) ELSE Sync(st, batch1)
      st2 == IF f = 0 /\ ci < Len(rest)
             THEN Sync(st1, <<SelectWrite(rest[ci + 1].range)>>) ELSE st1
  IN [errors |-> rest, host |-> st2, ok |-> f = 0, thrown |-> f /= 0]

acceptCurrentChangeScansWhenEmpty(F) ==
  IF currentIndex >= Len(errors)
  THEN \E o \in {ScanOutcome(Host, 0, 0)} :
         /\ errors' = o.errors
         /\ SetHost(o.host)
         /\ last' = Handler("acceptOne", TRUE, FALSE)
         /\ UNCHANGED <<notif, currentIndex, isChecking>>
  ELSE \E o \in {AcceptOneOutcome(Host, errors, currentIndex, 0, 0)} :
         /\ errors' = o.errors
         /\ SetHost(o.host)
         /\ last' = Handler("acceptOne", o.ok, o.thrown)
         /\ UNCHANGED <<notif, currentIndex, isChecking>>
acceptCurrentChange(F) ==
  IF currentIndex >= Len(errors)
  THEN /\ last' = Before("acceptOne", TRUE)
       /\ UNCHANGED <<doc, hl, sel, notif, errors, currentIndex, isChecking>>
  ELSE \E f \in {x \in 0..2 : x \in F} :
         \E m \in 0..1 :
           /\ f = 2 => currentIndex < Len(errors) - 1
           /\ f /= 1 => m = 0
           /\ \E o \in {AcceptOneOutcome(Host, errors, currentIndex, f, m)} :
                /\ errors' = o.errors
                /\ SetHost(o.host)
                /\ last' = Handler("acceptOne", o.ok, o.thrown)
           /\ UNCHANGED <<notif, currentIndex, isChecking>>

\* lines 144-166
RejectOneOutcomeNoSelect(st, q, ci, f) ==
  [errors |-> SpliceAt(q, ci),
   host |-> IF f = 1 THEN st ELSE Sync(st, <<HlWrite(q[ci + 1].range, NoColor)>>),
   ok |-> f = 0, thrown |-> f /= 0]
RejectOneOutcome(st, q, ci, f) ==
  LET removed == q[ci + 1]
      rest == SpliceAt(q, ci)
      st1 == IF f = 1 THEN st ELSE Sync(st, <<HlWrite(removed.range, NoColor)>>)
      st2 == IF f = 0 /\ ci < Len(rest)
             THEN Sync(st1, <<SelectWrite(rest[ci + 1].range)>>) ELSE st1
  IN [errors |-> rest, host |-> st2, ok |-> f = 0, thrown |-> f /= 0]

rejectCurrentChange(F) ==
  IF currentIndex >= Len(errors)
  THEN /\ last' = Before("rejectOne", TRUE)
       /\ UNCHANGED <<doc, hl, sel, notif, errors, currentIndex, isChecking>>
  ELSE \E f \in {x \in 0..2 : x \in F} :
         /\ f = 2 => currentIndex < Len(errors) - 1
         /\ \E o \in {RejectOneOutcome(Host, errors, currentIndex, f)} :
              /\ errors' = o.errors
              /\ SetHost(o.host)
              /\ last' = Handler("rejectOne", o.ok, o.thrown)
         /\ UNCHANGED <<notif, currentIndex, isChecking>>

\* lines 116-139, called again and again until the guard of line 117 turns
\* the call away, no sync failing
RECURSIVE RepeatAccept(_, _, _)
RepeatAccept(st, q, ci) ==
  IF ci >= Len(q) THEN [errors |-> q, host |-> st]
  ELSE LET o == AcceptOneOutcome(st, q, ci, 0, 0)
       IN RepeatAccept(o.host, o.errors, ci)

\* lines 144-166, called again and again until the guard of line 145 turns
\* the call away, no sync failing
RECURSIVE RepeatReject(_, _, _)
RepeatReject(st, q, ci) ==
  IF ci >= Len(q) THEN [errors |-> q, host |-> st]
  ELSE LET o == RejectOneOutcome(st, q, ci, 0)
       IN RepeatReject(o.host, o.errors, ci)

\* lines 180-184: the requests of the replacing batch
AcceptWritesFirstOnly(q) ==
  IF q = <<>> THEN <<>>
  ELSE <<TextWrite(q[1].range, q[1].suggestion), HlWrite(q[1].range, NoColor)>>
RECURSIVE AcceptWrites(_)
AcceptWrites(q) ==
  IF q = <<>> THEN <<>>
  ELSE <<TextWrite(q[1].range, q[1].suggestion), HlWrite(q[1].range, NoColor)>>
       \o AcceptWrites(Tail(q))

\* lines 173-175 and 202-204: with an empty queue checkDocumentText runs
\* first; with entries queued it is skipped
Repopulate(st, q, ci, n, busy, f, m) ==
  IF q = <<>> /\ ~busy
  THEN [currentIndex |-> 0] @@ ScanOutcome(st, f, m)
  ELSE [errors |-> q, currentIndex |-> ci, host |-> st, notif |-> n, ok |-> TRUE,
        thrown |-> FALSE]

\* lines 176-194, from a queue q in host state st.  g = 1: the sync fails
\* after the host applied k requests, and the failure leaves the function
AcceptAllOutcome(s, g, k) ==
  IF s.errors = <<>> THEN s
  ELSE IF g = 0
  THEN [errors |-> <<>>, currentIndex |-> 0,
        host |-> Sync(s.host, AcceptWrites(s.errors)),
        notif |-> "acceptedAll", ok |-> s.ok, thrown |-> FALSE]
  ELSE [s EXCEPT !.host = ApplyWrites(s.host, AcceptWrites(s.errors), k),
                 !.ok = FALSE, !.thrown = TRUE]

\* lines 205-222
RejectAllOutcomeReplaces(s, g, k) ==
  IF s.errors = <<>> THEN s
  ELSE [errors |-> <<>>, currentIndex |-> 0,
        host |-> Sync(s.host, AcceptWrites(s.errors)),
        notif |-> "clearedAll", ok |-> s.ok, thrown |-> FALSE]
RejectAllOutcome(s, g, k) ==
  IF s.errors = <<>> THEN s
  ELSE IF g = 0
  THEN [errors |-> <<>>, currentIndex |-> 0,
        host |-> Sync(s.host, HlWrites(s.errors, NoColor)),
        notif |-> "clearedAll", ok |-> s.ok, thrown |-> FALSE]
  ELSE [s EXCEPT !.host = ApplyWrites(s.host, HlWrites(s.errors, NoColor), k),
                 !.ok = FALSE, !.thrown = TRUE]

\* lines 171-195
acceptAllChanges(F) ==
  \E f \in {x \in 0..ScanSyncs(doc) : x \in F} :
    \E m \in ScanApplied(doc, f) :
      /\ (errors /= <<>> \/ isChecking) => f = 0
      /\ \E s \in {Repopulate(Host, errors, currentIndex, notif, isChecking, f, m)} :
           \E g \in {x \in 0..1 : x \in F} :
             \E k \in 0..(2 * Len(s.errors)) :
               /\ k > 0 => g = 1 /\ k < 2 * Len(s.errors)
               /\ g = 1 => s.errors /= <<>>
               /\ \E o \in {AcceptAllOutcome(s, g, k)} :
                    /\ errors' = o.errors
                    /\ currentIndex' = o.currentIndex
                    /\ SetHost(o.host)
                    /\ notif' = o.notif
                    /\ last' = Handler("acceptAll", o.ok, o.thrown)
      /\ UNCHANGED isChecking

\* lines 200-223
rejectAllChanges(F) ==
  \E f \in {x \in 0..ScanSyncs(doc) : x \in F} :
    \E m \in ScanApplied(doc, f) :
      /\ (errors /= <<>> \/ isChecking) => f = 0
      /\ \E s \in {Repopulate(Host, errors, currentIndex, notif, isChecking, f, m)} :
           \E g \in {x \in 0..1 : x \in F} :
             \E k \in 0..Len(s.errors) :
               /\ k > 0 => g = 1 /\ k < Len(s.errors)
               /\ g = 1 => s.errors /= <<>>
               /\ \E o \in {RejectAllOutcome(s, g, k)} :
                    /\ errors' = o.errors
                    /\ currentIndex' = o.currentIndex
                    /\ SetHost(o.host)
                    /\ notif' = o.notif
                    /\ last' = Handler("rejectAll", o.ok, o.thrown)
      /\ UNCHANGED isChecking

RuleIdle == rawWord = <<>> /\ result = "unused"

Init ==
  /\ RuleIdle
  /\ doc \in Docs
  /\ hl = [i \in 1..Len(doc) |-> NoColor]
  /\ sel = 0
  /\ notif = "none"
  /\ errors = <<>>
  /\ currentIndex = 0
  /\ isChecking = FALSE
  /\ inflight = <<>>
  /\ place = [i \in 1..Len(doc) |-> "body"]
  /\ last = NoLast

\* The five ribbon commands, no Document Access call failing
Next ==
  \/ checkDocumentText(NoFailure) /\ UNCHANGED otherVars
  \/ acceptCurrentChange(NoFailure) /\ UNCHANGED otherVars
  \/ rejectCurrentChange(NoFailure) /\ UNCHANGED otherVars
  \/ acceptAllChanges(NoFailure) /\ UNCHANGED otherVars
  \/ rejectAllChanges(NoFailure) /\ UNCHANGED otherVars

Spec == Init /\ [][Next]_vars

\* The five ribbon commands, any context.sync() possibly failing
NextFail ==
  \/ checkDocumentText(AnyFailure) /\ UNCHANGED otherVars
  \/ acceptCurrentChange(AnyFailure) /\ UNCHANGED otherVars
  \/ rejectCurrentChange(AnyFailure) /\ UNCHANGED otherVars
  \/ acceptAllChanges(AnyFailure) /\ UNCHANGED otherVars
  \/ rejectAllChanges(AnyFailure) /\ UNCHANGED otherVars

\* Failures are explored on documents of the words "s", "z" and "da"
FailInit == Init /\ \A i \in 1..Len(doc) : doc[i] \in {<<"s">>, <<"z">>, <<"d", "a">>}

SpecFail == FailInit /\ [][NextFail]_vars

(***************************************************************************)
(* Splice variant, checkDocumentText step by step: an invocation runs to   *)
(* its first await, and is resumed when the awaited context.sync() settles. *)
(* Other calls of checkDocumentText arrive while it is suspended.          *)
(***************************************************************************)
\* line 41: if (state.isChecking) return;
ScanGuardOff(busy) == FALSE
ScanGuard(busy) == busy

\* lines 108-110: finally { state.isChecking = false; }
ScanFinallySkipped(busy) == busy
ScanFinally(busy) == FALSE

\* The document as the scan sees it at candidate r: the text of r as the
\* search sync loaded it, the rest as the host holds it now
Stale(d0, d, r) == [d EXCEPT ![r] = d0[r]]

\* The numbers of queued requests the host may have applied when that sync
\* fails: the last batch holds writes only, the others end with a read
AppliedAt(t) ==
  IF t.pc = "selected" THEN 0..(Len(t.pending) - 1) ELSE 0..Len(t.pending)

\* lines 87-100: after the loop, with queue q and the requests p not yet sent
AfterLoop(t, h, q, ci, n, p) ==
  IF q = <<>>
  THEN [done |-> TRUE, ok |-> TRUE, host |-> Sync(h, p), errors |-> q,
        currentIndex |-> ci, notif |-> "noMismatches", task |-> t]
  ELSE [done |-> FALSE, ok |-> TRUE, host |-> h, errors |-> q,
        currentIndex |-> 0, notif |-> n,
        task |-> [t EXCEPT !.pc = "selected",
                           !.pending = p \o <<SelectWrite(q[1].range)>>]]

\* lines 56-100: the awaited sync resolved; the invocation t is resumed with
\* the host in state st, the queue q, the cursor ci and the notification n,
\* and runs to its next await or to its end
ScanStep(t, st, q, ci, n) ==
    LET h == Sync(st, t.pending) IN
    CASE t.pc = "cleared" ->
           [done |-> FALSE, ok |-> TRUE, host |-> h, errors |-> q,
            currentIndex |-> ci, notif |-> n,
            task |-> [t EXCEPT !.pc = "searched", !.pending = <<>>]]
      [] t.pc = "searched" ->
           LET cands == candidates(h.doc) IN
           IF cands = <<>>
           THEN AfterLoop(t, h, q, ci, n, <<>>)
           ELSE [done |-> FALSE, ok |-> TRUE, host |-> h, errors |-> q,
                 currentIndex |-> ci, notif |-> n,
                 task |-> [t EXCEPT !.pc = "next", !.k = 1, !.cands = cands,
                                    !.loaded = h.doc, !.pending = <<>>]]
      [] t.pc = "next" ->
           LET r == t.cands[t.k]
               seen == Stale(t.loaded, h.doc, r)
               hit == IsMismatch(seen, r)
               q2 == IF hit
                     THEN Append(q, [range |-> r, suggestion |-> Suggestion(seen, r)])
                     ELSE q
               p2 == IF hit THEN <<HlWrite(r, HIGHLIGHT_COLOR)>> ELSE <<>>
           IN IF t.k < Len(t.cands)
              THEN [done |-> FALSE, ok |-> TRUE, host |-> h, errors |-> q2,
                    currentIndex |-> ci, notif |-> n,
                    task |-> [t EXCEPT !.k = t.k + 1, !.pending = p2]]
              ELSE AfterLoop(t, h, q2, ci, n, p2)
      [] t.pc = "selected" ->
           [done |-> TRUE, ok |-> TRUE, host |-> h, errors |-> q,
            currentIndex |-> ci, notif |-> n, task |-> t]

\* the suspended invocations that are scans
IsScanTask(t) == t.pc \in {"cleared", "searched", "next", "selected"}

\* lines 40-56: a call of checkDocumentText, up to the first await
checkDocumentTextCall ==
  IF ScanGuard(isChecking)
  THEN /\ last' = [Before("scanDropped", TRUE) EXCEPT !.reentered = TRUE]
       /\ UNCHANGED <<doc, hl, sel, notif, errors, currentIndex, isChecking, inflight>>
  ELSE /\ isChecking' = TRUE
       /\ notif' = "none"
       /\ errors' = <<>>
       /\ currentIndex' = 0
       /\ inflight' = Append(inflight,
                             [pc |-> "cleared", k |-> 0, cands |-> <<>>,
                              loaded |-> <<>>, pending |-> HlWrites(<<>>, NoColor),
                              before |-> Before("scan", TRUE)])
       /\ last' = Before("scanCall", TRUE)
       /\ UNCHANGED <<doc, hl, sel>>

\* lines 102-110: the awaited sync of a suspended invocation rejected after
\* the host applied m of its requests; catch and finally run
checkDocumentTextReject ==
  \E i \in 1..Len(inflight) :
    \E m \in AppliedAt(inflight[i]) :
      /\ IsScanTask(inflight[i])
      /\ SetHost(ApplyWrites(Host, inflight[i].pending, m))
      /\ notif' = "checkFailed"
      /\ inflight' = SpliceAt(inflight, i - 1)
      /\ isChecking' = ScanFinally(isChecking)
      /\ last' = [inflight[i].before EXCEPT !.ok = FALSE,
                                            !.reentered = last.reentered]
      /\ UNCHANGED <<errors, currentIndex>>

\* lines 56-100 and 108-110: the awaited sync of a suspended invocation
\* resolved and the invocation runs on
checkDocumentTextResume ==
  \E i \in 1..Len(inflight) :
    /\ IsScanTask(inflight[i])
    /\ \E o \in {ScanStep(inflight[i], Host, errors, currentIndex, notif)} :
      /\ SetHost(o.host)
      /\ errors' = o.errors
      /\ currentIndex' = o.currentIndex
      /\ notif' = o.notif
      /\ IF o.done
         THEN /\ inflight' = SpliceAt(inflight, i - 1)
              /\ isChecking' = ScanFinally(isChecking)
              /\ last' = [inflight[i].before EXCEPT !.reentered = last.reentered]
         ELSE /\ inflight' = [inflight EXCEPT ![i] = o.task]
              /\ last' = [last EXCEPT !.op = "scanResumed"]
              /\ UNCHANGED isChecking

\* the awaited sync settles: it rejects or it resolves
checkDocumentTextSettle ==
  \/ checkDocumentTextReject
  \/ checkDocumentTextResume

ScanNext ==
  \/ checkDocumentTextCall /\ UNCHANGED <<ruleVars, place>>
  \/ checkDocumentTextReject /\ UNCHANGED <<ruleVars, place>>
  \/ checkDocumentTextResume /\ UNCHANGED <<ruleVars, place>>

\* A sync that was awaited settles, and the event loop then resumes the
\* invocation.
SpecScan ==
  /\ Init
  /\ [][ScanNext]_vars
  /\ WF_vars(checkDocumentTextSettle /\ UNCHANGED <<ruleVars, place>>)

(***************************************************************************)
(* Splice variant, a scan in flight while acceptAllChanges is invoked and  *)
(* while the user retypes a preposition of the document.  checkDocumentText *)
(* and acceptAllChanges are followed from await to await.  No Document     *)
(* Access call failing.                                                    *)
(***************************************************************************)
\* lines 171-183, invoked while a scan is suspended: with an empty queue
\* the call of checkDocumentText returns at its guard and line 176 returns;
\* with entries queued the requests of lines 179-183 are queued for them
ov_acceptAllChangesCall ==
  /\ isChecking
  /\ IF errors = <<>>
     THEN /\ last' = [last EXCEPT !.op = "acceptAllReturned"]
          /\ UNCHANGED inflight
     ELSE /\ Len(inflight) < MaxOverlap
          /\ inflight' = Append(inflight,
                                [pc |-> "acceptAll", pending |-> AcceptWrites(errors)])
          /\ last' = [last EXCEPT !.op = "acceptAllCalled"]
  /\ UNCHANGED <<doc, hl, sel, notif, errors, currentIndex, isChecking>>

\* lines 184-194: the sync of line 184 resolved
ov_acceptAllChangesResume ==
  \E i \in 1..Len(inflight) :
    /\ inflight[i].pc = "acceptAll"
    /\ SetHost(Sync(Host, inflight[i].pending))
    /\ errors' = <<>>
    /\ currentIndex' = 0
    /\ notif' = "acceptedAll"
    /\ inflight' = SpliceAt(inflight, i - 1)
    /\ last' = [last EXCEPT !.op = "acceptAll"]
    /\ UNCHANGED isChecking

\* The user retypes a preposition of the document as the other letter while
\* a scan is suspended in its loop, once per scan
ov_HostEdit ==
  \E r \in 1..Len(doc) :
    /\ \E i \in 1..Len(inflight) :
         inflight[i].pc = "next" /\ inflight[i].loaded = doc
    /\ doc[r] \in {<<"s">>, <<"z">>}
    /\ doc' = [doc EXCEPT ![r] = IF doc[r] = <<"s">> THEN <<"z">> ELSE <<"s">>]
    /\ last' = [last EXCEPT !.op = "edit"]
    /\ UNCHANGED <<hl, sel, notif, errors, currentIndex, isChecking, inflight>>

\* One scan per session; further calls arrive while it is suspended
OverlapNext ==
  \/ (last.op = "none" \/ isChecking)
     /\ checkDocumentTextCall /\ UNCHANGED <<ruleVars, place>>
  \/ checkDocumentTextResume /\ UNCHANGED <<ruleVars, place>>
  \/ ov_acceptAllChangesCall /\ UNCHANGED <<ruleVars, place>>
  \/ ov_acceptAllChangesResume /\ UNCHANGED <<ruleVars, place>>
  \/ ov_HostEdit /\ UNCHANGED <<ruleVars, place>>

SpecOverlap == FailInit /\ [][OverlapNext]_vars

(***************************************************************************)
(* Re-scan variant (preposition.js lines 226-453), no Document Access call *)
(* failing.  Its state is { errors, isChecking }.                          *)
(***************************************************************************)
\* line 288: /^[sSzZ]$/.test(raw)
IsSZ(raw) == Len(raw) = 1 /\ raw[1] \in {"s", "S", "z", "Z"}

\* lines 286-310 for one candidate r whose text was loaded from document d0,
\* the next word being read from the document d as it is now
rescan_IsMismatch(d0, d, r) ==
  LET raw == trim(d0[r])
      nxt == trim(getNextTextRange(d, r))
      expectedLower == determineCorrectPreposition(nxt)
  IN IsSZ(raw) /\ nxt /= <<>> /\ expectedLower /= Null
     /\ <<expectedLower>> /= toLowerCase(raw)

\* lines 303-305
rescan_SuggestionKeepsLetter(d0, d, r) == Head(trim(d0[r]))
rescan_Suggestion(d0, d, r) ==
  LET raw == trim(d0[r])
      expectedLower == determineCorrectPreposition(trim(getNextTextRange(d, r)))
  IN IF raw = toUpperCase(raw) THEN UpperOf(expectedLower) ELSE expectedLower

\* lines 286-310: state.errors after the candidates cands[1..k]
RECURSIVE rescan_Found(_, _, _)
rescan_Found(d, cands, k) ==
  IF k <= 0 THEN <<>>
  ELSE rescan_Found(d, cands, k - 1)
       \o (IF rescan_IsMismatch(d, d, cands[k])
           THEN <<[range |-> cands[k], suggestion |-> rescan_Suggestion(d, d, cands[k])]>>
           ELSE <<>>)

\* lines 266-336 from the guard on
rescan_ScanOutcome(st) ==
  LET d == st.doc
      cands == search(d, "s") \o search(d, "z")
      all == rescan_Found(d, cands, Len(cands))
      cleared == [st EXCEPT !.hl = [i \in 1..Len(d) |-> NoColor]]
  IN [errors |-> all,
      host |-> IF all = <<>> THEN cleared
               ELSE Sync(cleared, HlWrites(all, HIGHLIGHT_COLOR)
                                  \o <<SelectWrite(all[1].range)>>),
      notif |-> IF all = <<>> THEN "noMismatches" ELSE "none"]

rescan_checkDocumentText ==
  IF isChecking
  THEN /\ last' = Before("scan", TRUE)
       /\ UNCHANGED <<doc, hl, sel, notif, errors, currentIndex, isChecking>>
  ELSE \E o \in {rescan_ScanOutcome(Host)} :
         /\ errors' = o.errors
         /\ SetHost(o.host)
         /\ notif' = o.notif
         /\ isChecking' = FALSE
         /\ last' = Before("scan", TRUE)
         /\ UNCHANGED currentIndex

\* lines 341-356
rescan_acceptCurrentChange ==
  IF errors = <<>>
  THEN /\ last' = Before("acceptOne", TRUE)
       /\ UNCHANGED <<doc, hl, sel, notif, errors, currentIndex, isChecking>>
  ELSE \E o \in {rescan_ScanOutcome(
                   Sync(Host, <<TextWrite(errors[1].range, errors[1].suggestion),
                                HlWrite(errors[1].range, NoColor)>>))} :
         /\ errors' = o.errors
         /\ SetHost(o.host)
         /\ notif' = o.notif
         /\ last' = Before("acceptOne", TRUE)
         /\ UNCHANGED <<currentIndex, isChecking>>

\* lines 361-375
rescan_rejectCurrentChange ==
  IF errors = <<>>
  THEN /\ last' = Before("rejectOne", TRUE)
       /\ UNCHANGED <<doc, hl, sel, notif, errors, currentIndex, isChecking>>
  ELSE \E o \in {rescan_ScanOutcome(
                   Sync(Host, <<HlWrite(errors[1].range, NoColor)>>))} :
         /\ errors' = o.errors
         /\ SetHost(o.host)
         /\ notif' = o.notif
         /\ last' = Before("rejectOne", TRUE)
         /\ UNCHANGED <<currentIndex, isChecking>>

\* lines 390-410: the candidates cands[k..] in turn; each replacement is
\* sent by the sync of the next candidate, before that one's next word is read
RECURSIVE rescan_ReplaceFrom(_, _, _, _)
rescan_ReplaceFrom(d0, st, cands, k) ==
  IF k > Len(cands) THEN st
  ELSE rescan_ReplaceFrom(
         d0,
         IF rescan_IsMismatch(d0, st.doc, cands[k])
         THEN Sync(st, <<TextWrite(cands[k], rescan_Suggestion(d0, st.doc, cands[k])),
                         HlWrite(cands[k], NoColor)>>)
         ELSE st,
         cands, k + 1)

\* lines 380-423
rescan_acceptAllChanges ==
  \E st \in {rescan_ReplaceFrom(doc, Host, search(doc, "s") \o search(doc, "z"), 1)} :
    /\ SetHost(st)
    /\ errors' = <<>>
    /\ notif' = "acceptedAll"
    /\ last' = Before("acceptAll", TRUE)
    /\ UNCHANGED <<currentIndex, isChecking>>

\* lines 428-453
rescan_rejectAllChanges ==
  /\ hl' = [i \in 1..Len(doc) |->
              IF IsSZ(trim(doc[i])) THEN NoColor ELSE hl[i]]
  /\ errors' = <<>>
  /\ notif' = "clearedAll"
  /\ last' = Before("rejectAll", TRUE)
  /\ UNCHANGED <<doc, sel, currentIndex, isChecking>>

RescanNext ==
  \/ rescan_checkDocumentText /\ UNCHANGED otherVars
  \/ rescan_acceptCurrentChange /\ UNCHANGED otherVars
  \/ rescan_rejectCurrentChange /\ UNCHANGED otherVars
  \/ rescan_acceptAllChanges /\ UNCHANGED otherVars
  \/ rescan_rejectAllChanges /\ UNCHANGED otherVars

SpecRescan == Init /\ [][RescanNext]_vars

\* A document in which the user highlighted text before the session
UserColor == "#FFFF00"
UserInit ==
  /\ RuleIdle
  /\ doc \in Docs
  /\ \A i \in 1..Len(doc) : doc[i] \in {<<"s">>, <<"z">>, <<"d", "a">>}
  /\ hl \in [1..Len(doc) -> {NoColor, UserColor}]
  /\ sel = 0
  /\ notif = "none"
  /\ errors = <<>>
  /\ currentIndex = 0
  /\ isChecking = FALSE
  /\ inflight = <<>>
  /\ place = [i \in 1..Len(doc) |-> "body"]
  /\ last = NoLast

SpecRescanUser == UserInit /\ [][RescanNext]_vars

(***************************************************************************)
(* Multi-scope variant (commands.js lines 50-290), no Document Access call *)
(* failing.  A text run lies in the body proper, in a content control or a *)
(* table of the body, or in the header or the footer of the section.       *)
(***************************************************************************)
Places == {"body", "cc", "table", "header", "footer"}
BodyPlaces == {"body", "cc", "table"}

\* the story a place belongs to: a content control or a table of the body
\* is part of the body's text
Region(p) == IF p \in BodyPlaces THEN "body" ELSE p

\* line 123: the search text "\\b[sz]\\b"
SearchText == <<"\\", "b", "[", "s", "z", "]", "\\", "b">>

\* line 118 and line 123: whether scope.search finds the text run w.  The
\* options name matchCase and matchWholeWord only, and the host decides how
\* it reads the search text: as the pattern it spells (a standalone "s" or
\* "z", which line 121 and the filter of lines 145-147 expect), or letter by
\* letter.
SearchHit(w, mode) ==
  IF mode = "pattern"
  THEN toLowerCase(w) \in {<<"s">>, <<"z">>}
  ELSE toLowerCase(w) = toLowerCase(SearchText)

\* lines 122-127: the ranges one addSearchResults call over the text runs
\* lying in the places S appends, in document order
scope_search(d, pl, S, mode) ==
  SelectSeq([i \in 1..Len(d) |-> i],
            LAMBDA i : pl[i] \in S /\ SearchHit(d[i], mode))

\* lines 129-142: body, header, footer, content controls, body tables
allRanges(d, pl, mode) ==
  scope_search(d, pl, BodyPlaces, mode)
  \o scope_search(d, pl, {"header"}, mode)
  \o scope_search(d, pl, {"footer"}, mode)
  \o scope_search(d, pl, {"cc"}, mode)
  \o scope_search(d, pl, {"table"}, mode)

\* lines 145-147
scope_candidates(d, pl, mode) ==
  SelectSeq(allRanges(d, pl, mode),
            LAMBDA r : toLowerCase(trim(d[r])) \in {<<"s">>, <<"z">>})

\* lines 151-156: the word after r, within the story r lies in
scope_nextWord(d, pl, r) ==
  IF r < Len(d) /\ Region(pl[r + 1]) = Region(pl[r]) THEN trim(d[r + 1]) ELSE <<>>

\* lines 156-161
scope_IsMismatch(d, pl, r) ==
  LET nextWord == scope_nextWord(d, pl, r)
      curr == toLowerCase(trim(d[r]))
      corr == determineCorrectPreposition(nextWord)
  IN nextWord /= <<>> /\ corr /= Null /\ curr /= <<corr>>

\* lines 149-162: errors after the candidates cands[1..k]
RECURSIVE scope_Found(_, _, _, _)
scope_Found(d, pl, cands, k) ==
  IF k <= 0 THEN <<>>
  ELSE scope_Found(d, pl, cands, k - 1)
       \o (IF scope_IsMismatch(d, pl, cands[k])
           THEN <<[range |-> cands[k],
                   suggestion |-> determineCorrectPreposition(scope_nextWord(d, pl, cands[k]))]>>
           ELSE <<>>)

\* lines 112-179 from the guard on, the queue being q when the scan starts
scope_ScanOutcome(st, pl, q, mode) ==
  LET cleared == Sync(st, HlWrites(q, NoColor))
      cands == scope_candidates(st.doc, pl, mode)
      all == scope_Found(st.doc, pl, cands, Len(cands))
  IN [errors |-> all,
      host |-> IF all = <<>> THEN cleared
               ELSE Sync(cleared, HlWrites(all, HIGHLIGHT_COLOR)
                                  \o <<SelectWrite(all[1].range)>>),
      notif |-> IF all = <<>> THEN "noMismatches" ELSE "none"]

\* lines 106-190
scope_checkDocumentText ==
  IF isChecking
  THEN /\ last' = Before("scanDropped", TRUE)
       /\ UNCHANGED <<doc, hl, sel, notif, errors, currentIndex, isChecking>>
  ELSE \E mode \in {"pattern", "literal"} :
         \E o \in {scope_ScanOutcome(Host, place, errors, mode)} :
           /\ errors' = o.errors
           /\ currentIndex' = 0
           /\ SetHost(o.host)
           /\ notif' = o.notif
           /\ isChecking' = FALSE
           /\ last' = Before("scan", TRUE)

\* lines 193-219: the cursor moves on, the queue keeps its entries
scope_acceptCurrentChange ==
  IF currentIndex >= Len(errors)
  THEN /\ last' = Before("acceptOne", TRUE)
       /\ UNCHANGED <<doc, hl, sel, notif, errors, currentIndex, isChecking>>
  ELSE LET err == errors[currentIndex + 1]
           st1 == Sync(Host, <<TextWrite(err.range, err.suggestion),
                               HlWrite(err.range, NoColor)>>)
       IN /\ SetHost(IF currentIndex + 1 < Len(errors)
                     THEN Sync(st1, <<SelectWrite(errors[currentIndex + 2].range)>>)
                     ELSE st1)
          /\ currentIndex' = currentIndex + 1
          /\ last' = Before("acceptOne", TRUE)
          /\ UNCHANGED <<notif, errors, isChecking>>

\* lines 221-241
scope_rejectCurrentChange ==
  IF currentIndex >= Len(errors)
  THEN /\ last' = Before("rejectOne", TRUE)
       /\ UNCHANGED <<doc, hl, sel, notif, errors, currentIndex, isChecking>>
  ELSE LET err == errors[currentIndex + 1]
           st1 == Sync(Host, <<HlWrite(err.range, NoColor)>>)
       IN /\ SetHost(IF currentIndex + 1 < Len(errors)
                     THEN Sync(st1, <<SelectWrite(errors[currentIndex + 2].range)>>)
                     ELSE st1)
          /\ currentIndex' = currentIndex + 1
          /\ last' = Before("rejectOne", TRUE)
          /\ UNCHANGED <<notif, errors, isChecking>>

\* lines 243-262: every entry of the queue, the cursor left where it is
scope_acceptAllChanges ==
  /\ last' = Before("acceptAll", TRUE)
  /\ IF errors = <<>>
     THEN UNCHANGED <<doc, hl, sel, notif, errors, currentIndex, isChecking>>
     ELSE /\ SetHost(Sync(Host, AcceptWrites(errors)))
          /\ errors' = <<>>
          /\ UNCHANGED <<notif, currentIndex, isChecking>>

\* lines 264-282
scope_rejectAllChanges ==
  /\ last' = Before("rejectAll", TRUE)
  /\ IF errors = <<>>
     THEN UNCHANGED <<doc, hl, sel, notif, errors, currentIndex, isChecking>>
     ELSE /\ SetHost(Sync(Host, HlWrites(errors, NoColor)))
          /\ errors' = <<>>
          /\ UNCHANGED <<notif, currentIndex, isChecking>>

\* Documents of the words "s", "z" and "da", every text run in any place
ScopeInit ==
  /\ RuleIdle
  /\ doc \in Docs
  /\ \A i \in 1..Len(doc) : doc[i] \in {<<"s">>, <<"z">>, <<"d", "a">>}
  /\ place \in [1..Len(doc) -> Places]
  /\ hl = [i \in 1..Len(doc) |-> NoColor]
  /\ sel = 0
  /\ notif = "none"
  /\ errors = <<>>
  /\ currentIndex = 0
  /\ isChecking = FALSE
  /\ inflight = <<>>
  /\ last = NoLast

ScopeNext ==
  \/ scope_checkDocumentText /\ UNCHANGED otherVars
  \/ scope_acceptCurrentChange /\ UNCHANGED otherVars
  \/ scope_rejectCurrentChange /\ UNCHANGED otherVars
  \/ scope_acceptAllChanges /\ UNCHANGED otherVars
  \/ scope_rejectAllChanges /\ UNCHANGED otherVars

SpecScope == ScopeInit /\ [][ScopeNext]_vars

(***************************************************************************)
(* Cursor variant (preposition.js lines 455-650): the queue keeps its      *)
(* entries and the cursor moves over them.  acceptCurrentChange and        *)
(* rejectCurrentChange are followed from await to await, so that two       *)
(* invocations can overlap; a scan and the all-operations run in one       *)
(* piece.  No Document Access call failing.  The history keeps the         *)
(* locations rejected since the last scan.                                 *)
(***************************************************************************)
\* lines 491-562 (the guard of line 498 finds the flag down: a scan runs in
\* one piece here); the requests of line 494 reach the host with the sync
\* of line 511
cur_ScanOutcome(st, q) ==
  LET cleared == Sync(st, HlWrites(q, NoColor))
      cands == candidates(st.doc)
      all == Found(st.doc, cands, Len(cands))
  IN [errors |-> all,
      host |-> IF all = <<>> THEN cleared
               ELSE Sync(cleared, HlWrites(all, HIGHLIGHT_COLOR)
                                  \o <<SelectWrite(all[1].range)>>),
      notif |-> IF all = <<>> THEN "noMismatches" ELSE "none"]

cur_checkDocumentText ==
  \E o \in {cur_ScanOutcome(Host, errors)} :
    /\ errors' = o.errors
    /\ currentIndex' = 0
    /\ SetHost(o.host)
    /\ notif' = o.notif
    /\ isChecking' = FALSE
    /\ last' = Before("scan", TRUE)
    /\ UNCHANGED inflight

\* lines 568-576 and 593-600: up to the first await; the entry under the
\* cursor is read once, here
cur_OneCall(op) ==
  IF currentIndex >= Len(errors)
  THEN /\ last' = [Before(op, TRUE) EXCEPT !.rejected = last.rejected]
       /\ UNCHANGED <<doc, hl, sel, notif, errors, currentIndex, isChecking, inflight>>
  ELSE LET err == errors[currentIndex + 1] IN
       /\ Len(inflight) < MaxOverlap
       /\ inflight' = Append(inflight,
            [pc |-> "resolve", op |-> op, err |-> err,
             pending |-> IF op = "acceptOne"
                         THEN <<TextWrite(err.range, err.suggestion),
                                HlWrite(err.range, NoColor)>>
                         ELSE <<HlWrite(err.range, NoColor)>>])
       /\ last' = [last EXCEPT !.op = "oneCalled"]
       /\ UNCHANGED <<doc, hl, sel, notif, errors, currentIndex, isChecking>>

cur_acceptCurrentChangeCall == cur_OneCall("acceptOne")
cur_rejectCurrentChangeCall == cur_OneCall("rejectOne")

\* lines 576-582 and 600-606: a suspended invocation goes on after its sync
cur_OneResume ==
  \E i \in 1..Len(inflight) :
    LET t == inflight[i] IN
    /\ SetHost(Sync(Host, t.pending))
    /\ UNCHANGED <<notif, errors, isChecking>>
    /\ IF t.pc = "resolve"
       THEN /\ currentIndex' = currentIndex + 1
            /\ last' = [Before(t.op, TRUE) EXCEPT
                          !.rejected = IF t.op = "rejectOne"
                                       THEN last.rejected \cup {t.err.range}
                                       ELSE last.rejected]
            /\ inflight' =
                 IF currentIndex + 1 < Len(errors)
                 THEN [inflight EXCEPT ![i] =
                         [t EXCEPT !.pc = "select",
                                   !.pending = <<SelectWrite(errors[currentIndex + 2].range)>>]]
                 ELSE SpliceAt(inflight, i - 1)
       ELSE /\ inflight' = SpliceAt(inflight, i - 1)
            /\ last' = [last EXCEPT !.op = "oneSelected"]
            /\ UNCHANGED currentIndex

\* lines 616-631: every entry of the queue, the cursor left where it is
cur_acceptAllChanges ==
  /\ last' = [Before("acceptAll", TRUE) EXCEPT !.rejected = last.rejected]
  /\ UNCHANGED inflight
  /\ IF errors = <<>>
     THEN UNCHANGED <<doc, hl, sel, notif, errors, currentIndex, isChecking>>
     ELSE /\ SetHost(Sync(Host, AcceptWrites(errors)))
          /\ errors' = <<>>
          /\ UNCHANGED <<notif, currentIndex, isChecking>>

\* lines 636-650
cur_rejectAllChanges ==
  /\ last' = [Before("rejectAll", TRUE) EXCEPT
                !.rejected = last.rejected \cup Ranges(errors)]
  /\ UNCHANGED inflight
  /\ IF errors = <<>>
     THEN UNCHANGED <<doc, hl, sel, notif, errors, currentIndex, isChecking>>
     ELSE /\ SetHost(Sync(Host, HlWrites(errors, NoColor)))
          /\ errors' = <<>>
          /\ UNCHANGED <<notif, currentIndex, isChecking>>

\* A scan starts when no invocation is suspended
CursorNext ==
  \/ inflight = <<>> /\ cur_checkDocumentText /\ UNCHANGED <<ruleVars, place>>
  \/ cur_acceptCurrentChangeCall /\ UNCHANGED <<ruleVars, place>>
  \/ cur_rejectCurrentChangeCall /\ UNCHANGED <<ruleVars, place>>
  \/ cur_OneResume /\ UNCHANGED <<ruleVars, place>>
  \/ cur_acceptAllChanges /\ UNCHANGED <<ruleVars, place>>
  \/ cur_rejectAllChanges /\ UNCHANGED <<ruleVars, place>>

SpecCursor == Init /\ [][CursorNext]_vars

(***************************************************************************)
(* Two-class variant (part_006): the pairs s/z and k/h, no session state,  *)
(* every command searching the document anew.  No Document Access call     *)
(* failing.                                                                *)
(***************************************************************************)
\* part_006 lines 20-39; prepLower is one character
kh_determineIgnoresClass(nextWord, prepLower) ==
  IF nextWord = <<>> THEN Null
  ELSE LET nw == trim(normalizeNFC(nextWord)) IN
       IF nw = <<>> THEN Null
       ELSE LET ch == nw[1]
                key == IF ch \in Digits THEN digitMap[ch] ELSE LowerOf(ch)
            IN IF prepLower \in {"s", "z", "k", "h"}
               THEN (IF key \in voiceless THEN "s" ELSE "z")
               ELSE Null
kh_determineCorrectPreposition(nextWord, prepLower) ==
  IF nextWord = <<>> THEN Null
  ELSE LET nw == trim(normalizeNFC(nextWord)) IN
       IF nw = <<>> THEN Null
       ELSE LET ch == nw[1]
                key == IF ch \in Digits THEN digitMap[ch] ELSE LowerOf(ch)
            IN CASE prepLower \in {"s", "z"} ->
                      (IF key \in voiceless THEN "s" ELSE "z")
                 [] prepLower \in {"k", "h"} ->
                      (IF key \in {"k", "g"} THEN "h" ELSE "k")
                 [] OTHER -> Null

\* lines 46-81: the scanned stories, the body first
kh_scanRanges == <<"body", "header", "footer">>

\* lines 99-106 (and 176-183, 223-230): the hits of the four searches in
\* one story
kh_search(d, pl, rng) ==
  LET in(letter) == SelectSeq(search(d, letter), LAMBDA r : Region(pl[r]) = rng)
  IN in("s") \o in("z") \o in("k") \o in("h")

\* lines 98-111: the candidates in the order they are evaluated
kh_candidates(d, pl) ==
  SelectSeq(kh_search(d, pl, kh_scanRanges[1])
            \o kh_search(d, pl, kh_scanRanges[2])
            \o kh_search(d, pl, kh_scanRanges[3]),
            LAMBDA r : toLowerCase(trim(d[r])) \in {<<"s">>, <<"z">>, <<"k">>, <<"h">>})

\* lines 108-122: the verdict on candidate r; its own text was loaded with
\* the search results, the next word is read from the document as it is
kh_expected(d, loaded, pl, r) ==
  kh_determineCorrectPreposition(scope_nextWord(d, pl, r),
                                 Head(toLowerCase(trim(loaded[r]))))
kh_IsMismatch(d, loaded, pl, r) ==
  LET nxt == scope_nextWord(d, pl, r)
      lower == Head(toLowerCase(trim(loaded[r])))
      expected == kh_expected(d, loaded, pl, r)
  IN nxt /= <<>> /\ expected /= Null /\ expected /= lower

\* lines 86-139
kh_ScanOutcome(st, pl) ==
  LET cleared == [st EXCEPT !.hl = [i \in 1..Len(st.doc) |-> NoColor]]
      mismatches == SelectSeq(kh_candidates(st.doc, pl),
                              LAMBDA r : kh_IsMismatch(st.doc, st.doc, pl, r))
  IN [host |-> IF mismatches = <<>>
               THEN cleared
               ELSE Sync(cleared,
                         [i \in 1..Len(mismatches) |->
                            HlWrite(mismatches[i], HIGHLIGHT_COLOR)]
                         \o <<SelectWrite(mismatches[1])>>),
      notif |-> IF mismatches = <<>> THEN "noMismatches" ELSE "none"]

\* lines 83-147
kh_checkDocumentText ==
  \E o \in {kh_ScanOutcome(Host, place)} :
    /\ SetHost(o.host)
    /\ notif' = o.notif
    /\ last' = Before("scan", TRUE)
    /\ UNCHANGED <<errors, currentIndex, isChecking>>

\* lines 200-202: the replacement keeps the case of the token's text
kh_replacement(raw, expected) ==
  IF raw = toUpperCase(raw) THEN UpperOf(expected) ELSE expected

\* lines 185-207: the document after the candidates cands[1..k]; the
\* requests queued for a candidate reach the host with the sync that reads
\* the next candidate's following word
RECURSIVE kh_AcceptedThrough(_, _, _, _, _)
kh_AcceptedThrough(st, loaded, pl, cands, k) ==
  IF k <= 0 THEN st
  ELSE LET prev == kh_AcceptedThrough(st, loaded, pl, cands, k - 1)
           r == cands[k]
       IN IF kh_IsMismatch(prev.doc, loaded, pl, r)
          THEN Sync(prev,
                    <<TextWrite(r, kh_replacement(trim(loaded[r]),
                                                  kh_expected(prev.doc, loaded, pl, r))),
                      HlWrite(r, NoColor)>>)
          ELSE prev

\* lines 167-220
kh_acceptAllChanges ==
  \E cands \in {kh_candidates(doc, place)} :
    /\ SetHost(kh_AcceptedThrough(Host, doc, place, cands, Len(cands)))
    /\ notif' = "acceptedAll"
    /\ last' = Before("acceptAll", TRUE)
    /\ UNCHANGED <<errors, currentIndex, isChecking>>

\* lines 222-243: every one-letter token of the four searches loses its flag
kh_rejectAllChanges ==
  LET hits == SelectSeq(kh_search(doc, place, kh_scanRanges[1])
                        \o kh_search(doc, place, kh_scanRanges[2])
                        \o kh_search(doc, place, kh_scanRanges[3]),
                        LAMBDA r : trim(doc[r]) \in
                          {<<"s">>, <<"S">>, <<"z">>, <<"Z">>,
                           <<"k">>, <<"K">>, <<"h">>, <<"H">>})
  IN /\ SetHost(Sync(Host, [i \in 1..Len(hits) |-> HlWrite(hits[i], NoColor)]))
     /\ notif' = "clearedAll"
     /\ last' = Before("rejectAll", TRUE)
     /\ UNCHANGED <<errors, currentIndex, isChecking>>

\* One call of the rule engine: rawWord holds the two arguments
kh_RuleChars == {"k", "g", "G", "K", "h", "s", "p", "d", "z", "c^", "7", "1",
                 "(", "-", " ", "CARON"}
kh_RuleWords == UNION {[1..n -> kh_RuleChars] : n \in 0..MaxLen}
kh_Classes == {"s", "z", "k", "h", "a"}

kh_CallRule ==
  /\ result = "pending"
  /\ result' = kh_determineCorrectPreposition(rawWord[1], rawWord[2])
  /\ UNCHANGED <<rawWord>>
  /\ UNCHANGED sessionVars

kh_Vocab == {<<"k">>, <<"h">>, <<"K">>, <<"s">>, <<"g", "a">>, <<"d", "a">>,
             <<"(", "g">>, <<"-">>}

\* Either one call of the rule engine, or a session on a document
kh_Init ==
  \/ /\ rawWord \in kh_RuleWords \X kh_Classes
     /\ result = "pending"
     /\ SessionIdle
  \/ /\ RuleIdle
     /\ doc \in UNION {[1..n -> kh_Vocab] : n \in 1..MaxTokens}
     /\ hl = [i \in 1..Len(doc) |-> NoColor]
     /\ place = [i \in 1..Len(doc) |-> "body"]
     /\ sel = 0
     /\ notif = "none"
     /\ errors = <<>>
     /\ currentIndex = 0
     /\ isChecking = FALSE
     /\ inflight = <<>>
     /\ last = NoLast

kh_Next ==
  \/ kh_CallRule
  \/ doc /= NoDoc /\ kh_checkDocumentText /\ UNCHANGED otherVars
  \/ doc /= NoDoc /\ kh_acceptAllChanges /\ UNCHANGED otherVars
  \/ doc /= NoDoc /\ kh_rejectAllChanges /\ UNCHANGED otherVars

SpecTwoClass == kh_Init /\ [][kh_Next]_vars

(***************************************************************************)
(* Properties                                                              *)
(***************************************************************************)
Ran(op) == last.op = op /\ last.ok
IsPreposition(w) == toLowerCase(trim(w)) \in {<<"s">>, <<"z">>}
UnvoicedSounds == {"c", "c^", "f", "h", "k", "p", "s", "s^", "t"}

\* C1: for a next-word text holding a letter or digit, the verdict depends
\* only on the first letter/digit character of the (composed) text, case
\* ignored and a digit mapped to its sound: "s" when that sound is one of
\* c, c^, f, h, k, p, s, s^, t, and "z" for every other letter.
C1_RuleFirstSound ==
  result /= "pending" =>
    LET n == normalizeNFC(rawWord) IN
    \A i \in 1..Len(n) :
      (/\ n[i] \in Letters \cup Digits
       /\ \A j \in 1..(i - 1) : n[j] \notin Letters \cup Digits)
      => LET sound == IF n[i] \in Digits THEN digitMap[n[i]] ELSE LowerOf(n[i])
         IN result = (IF sound \in UnvoicedSounds THEN "s" ELSE "z")

\* C1 witness: an upper-case unvoiced letter behind punctuation gives "s"
C1_Witness ==
  /\ result = "s"
  /\ rawWord = <<"(", "S">>

\* C2: acceptCurrentChange without failure on a queue of N >= 1 entries
\* leaves N - 1 entries, and the text at the removed entry's location is its
\* suggestion.
C2_AcceptOneShrinks ==
  (Ran("acceptOne") /\ Len(last.errors) >= 1) =>
    /\ Len(errors) = Len(last.errors) - 1
    /\ last.currentIndex < Len(last.errors)
    /\ doc[last.errors[last.currentIndex + 1].range]
         = <<last.errors[last.currentIndex + 1].suggestion>>

\* C2 witness: an accept that took one of two queued entries
C2_Witness ==
  /\ Ran("acceptOne")
  /\ Len(last.errors) = 2
  /\ Len(errors) = 1
  /\ doc /= last.doc

\* C3: re-scan variant: rejectCurrentChange on a queue of N >= 1 entries
\* leaves N - 1 entries, the rejected entry neither queued nor flagged, its
\* text unchanged.
C3_RejectOneShrinks ==
  (Ran("rejectOne") /\ Len(last.errors) >= 1) =>
    /\ Len(errors) = Len(last.errors) - 1
    /\ last.errors[1].range \notin Ranges(errors)
    /\ hl[last.errors[1].range] = NoColor
    /\ doc = last.doc

\* C4: after a scan without failure the queue holds exactly the tokens that
\* are "s" or "z" (case ignored), have a non-empty next word for which the
\* rule engine gives a letter, and differ from that letter; each once.
C4_ScanExact ==
  Ran("scan") =>
    /\ Ranges(errors) =
         {i \in 1..Len(doc) :
            /\ IsPreposition(doc[i])
            /\ i < Len(doc)
            /\ trim(doc[i + 1]) /= <<>>
            /\ determineCorrectPreposition(trim(doc[i + 1])) \in {"s", "z"}
            /\ <<determineCorrectPreposition(trim(doc[i + 1]))>> /= toLowerCase(trim(doc[i]))}
    /\ Cardinality(Ranges(errors)) = Len(errors)

\* C4 witness: a scan that queued one token and skipped a preposition whose
\* next word has no letter or digit, and one that ends the document
C4_Witness ==
  /\ Ran("scan")
  /\ Len(errors) = 1
  /\ \E i \in 1..(Len(doc) - 1) :
       /\ IsPreposition(doc[i])
       /\ determineCorrectPreposition(trim(doc[i + 1])) = Null
       /\ i \notin Ranges(errors)

\* C5: acceptAllChanges without failure on a non-empty queue replaces the
\* text of every queued entry by its suggestion, clears its flag and leaves
\* the queue empty with cursor 0.
C5_AcceptAllResolves ==
  (Ran("acceptAll") /\ last.errors /= <<>>) =>
    /\ errors = <<>>
    /\ currentIndex = 0
    /\ \A i \in 1..Len(last.errors) :
         /\ doc[last.errors[i].range] = <<last.errors[i].suggestion>>
         /\ hl[last.errors[i].range] = NoColor

\* C5 witness: an acceptAll that resolved two queued entries
C5_Witness ==
  /\ Ran("acceptAll")
  /\ Len(last.errors) = 2
  /\ errors = <<>>
  /\ \A i \in 1..2 : doc[last.errors[i].range] /= last.doc[last.errors[i].range]

\* C6: after scan, acceptAllChanges, scan, for every document, no location
\* that acceptAllChanges fixed is queued again (the least the claim says: it
\* says the queue is empty).
C6_AcceptAllThenScanEmpty ==
  (Ran("scan") /\ last.round = 3) => Ranges(errors) \cap last.fixed = {}

\* C7: after a scan the queue is in ascending document position.
C7_QueueInDocumentOrder ==
  Ran("scan") =>
    \A i \in 1..Len(errors) : \A j \in 1..Len(errors) :
      i < j => errors[i].range < errors[j].range

\* C8: after acceptCurrentChange every entry still queued is a mismatch of
\* the current document: the letter expected for the token's current next
\* word is the entry's suggestion and differs from the token's letter.
C8_QueueFreshAfterAccept ==
  (Ran("acceptOne") /\ last.errors /= <<>>) =>
    \A i \in 1..Len(errors) :
      LET r == errors[i].range
          expected == determineCorrectPreposition(trim(getNextTextRange(doc, r)))
      IN /\ expected = errors[i].suggestion
         /\ <<expected>> /= toLowerCase(trim(doc[r]))

\* C9: every queued suggestion has the case of the token found in the
\* document.
C9_SuggestionKeepsCase ==
  Ran("scan") =>
    \A i \in 1..Len(errors) :
      (trim(doc[errors[i].range])[1] \in UpperLetters)
        <=> (errors[i].suggestion \in UpperLetters)

\* C10: acceptAllChanges on an empty queue changes no document text and
\* leaves the queue empty.
C10_AcceptAllEmptyNoOp ==
  (last.op = "acceptAll" /\ last.errors = <<>>) =>
    /\ doc = last.doc
    /\ errors = <<>>

\* The queue a scan of document d builds when it runs alone and no sync fails
SoloQueue(d) == Found(d, candidates(d), Len(candidates(d)))

\* C11: a checkDocumentText call made while a scan is in flight changes
\* neither the queue, the cursor, isChecking nor the document; the scan in
\* flight ends with the queue it builds when it runs alone; and never more
\* than one scan body is in flight.
C11_ScanReentrancy ==
  /\ Len(inflight) <= 1
  /\ last.op = "scanDropped" =>
       /\ isChecking
       /\ errors = last.errors
       /\ currentIndex = last.currentIndex
       /\ doc = last.doc /\ hl = last.hl /\ sel = last.sel
  /\ Ran("scan") => errors = SoloQueue(doc)

\* C11 witness: a scan that queued two tokens although a call was turned
\* away while it was in flight
C11_Witness ==
  /\ Ran("scan")
  /\ last.reentered
  /\ Len(errors) = 2
  /\ inflight = <<>>

\* C12: every checkDocumentText invocation that passed the guard ends with
\* isChecking = false, whether it ran to its end or a sync failed at any
\* await; so right after a failed scan the guard lets the next call in.
C12_ScanReleasesGuard ==
  /\ isChecking ~> ~isChecking
  /\ [](inflight = <<>> => ~isChecking)
  /\ []((last.op = "scan" /\ ~last.ok) => ScanGuard(isChecking) = FALSE)

\* C12 witness: a scan that failed after it had queued a token has ended
\* and has released the guard
C12_Witness ==
  /\ last.op = "scan"
  /\ ~last.ok
  /\ errors /= <<>>
  /\ inflight = <<>>
  /\ ~isChecking

\* C13: when a sync fails during checkDocumentText, at whichever await, the
\* scan ends with the queue empty and the failure notice shown.
C13_FailedScanEmptiesQueue ==
  (last.op = "scan" /\ ~last.ok) =>
    /\ errors = <<>>
    /\ notif = "checkFailed"

\* C14: a sync failure during any of the five operations stays inside the
\* operation, so the ribbon handler goes on to event.completed().
C14_FailureCaught ==
  ~last.ok => last.completed

\* C15: two checkDocumentText runs in a row, nothing in between, end with
\* the same queue: same length, order, locations and suggestions.
C15_ScanIdempotent ==
  (Ran("scan") /\ last.twice) => errors = last.errors

\* C15 witness: the second of two scans in a row queued the same two tokens
C15_Witness ==
  /\ Ran("scan")
  /\ last.twice
  /\ Len(errors) = 2
  /\ last.errors = errors
  /\ last.doc = doc

\* The host state an operation started from
HostBefore == [doc |-> last.doc, hl |-> last.hl, sel |-> last.sel]

\* C16: from a non-empty queue and with no failure, acceptAllChanges ends
\* with the document text and the (empty) queue that repeated
\* acceptCurrentChange calls end with; rejectAllChanges ends with the flags
\* and the queue that repeated rejectCurrentChange calls end with.
C16_AllEqualsRepeatedOne ==
  /\ (Ran("acceptAll") /\ last.errors /= <<>>) =>
       LET r == RepeatAccept(HostBefore, last.errors, last.currentIndex)
       IN doc = r.host.doc /\ errors = r.errors /\ errors = <<>>
  /\ (Ran("rejectAll") /\ last.errors /= <<>>) =>
       LET r == RepeatReject(HostBefore, last.errors, last.currentIndex)
       IN hl = r.host.hl /\ errors = r.errors /\ errors = <<>>

\* C16 witness: an acceptAllChanges that replaced two queued tokens, one of
\* them the next word of the other
C16_Witness ==
  /\ Ran("acceptAll")
  /\ Len(last.errors) = 2
  /\ \E i, j \in 1..2 : last.errors[i].range + 1 = last.errors[j].range
  /\ doc /= last.doc
  /\ doc = RepeatAccept(HostBefore, last.errors, last.currentIndex).host.doc

\* C17: checkDocumentText, rejectCurrentChange and rejectAllChanges leave
\* the text of every token as it was, from any state, rejectAllChanges on
\* an empty queue (which scans first) included.
C17_RejectKeepsText ==
  last.op \in {"scan", "rejectOne", "rejectAll"} => doc = last.doc

\* C17 witness: rejectAllChanges called on an empty queue scanned, found a
\* mismatch and cleared its flag
C17_Witness ==
  /\ Ran("rejectAll")
  /\ last.errors = <<>>
  /\ notif = "clearedAll"
  /\ SoloQueue(doc) /= <<>>
  /\ doc = last.doc

C19_DigitRule ==
  result /= "pending" =>
    LET n == normalizeNFC(rawWord) IN
    \A i \in 1..Len(n) :
      (/\ n[i] \in Digits
       /\ \A j \in 1..(i - 1) : n[j] \notin Letters \cup Digits)
      => /\ digitMap[n[i]] =
              (CASE n[i] = "1" -> "e" [] n[i] = "2" -> "d" [] n[i] = "3" -> "t"
                 [] n[i] = "4" -> "s^" [] n[i] = "5" -> "p" [] n[i] = "6" -> "s^"
                 [] n[i] = "7" -> "s" [] n[i] = "8" -> "o" [] n[i] = "9" -> "d"
                 [] n[i] = "0" -> "n")
         /\ result = (IF n[i] \in {"3", "4", "5", "6", "7"} THEN "s" ELSE "z")

\* C19 witness: "7" behind a full stop gives "s"
C19_Witness ==
  /\ result = "s"
  /\ rawWord = <<".", "7">>

\* C20: the verdict is null exactly when the next-word text holds no letter
\* and no digit (it is empty, or punctuation, symbols and whitespace only);
\* otherwise it is "s" or "z".
C20_NullIffNoLetterOrDigit ==
  result /= "pending" =>
    /\ result = Null <=> (\A i \in 1..Len(rawWord) : rawWord[i] \notin Letters \cup Digits)
    /\ result \in {Null, "s", "z"}

\* C20 witness: a text of punctuation and a combining mark gives null
C20_Witness ==
  /\ result = Null
  /\ rawWord = <<".", "CARON">>

\* C23: acceptCurrentChange and rejectCurrentChange called on an empty
\* queue change nothing: queue, cursor, text, flags and selection stay.
C23_OneOnEmptyQueueNoOp ==
  (last.op \in {"acceptOne", "rejectOne"} /\ last.errors = <<>>) =>
    /\ errors = <<>>
    /\ currentIndex = last.currentIndex
    /\ doc = last.doc /\ hl = last.hl /\ sel = last.sel
    /\ last.ok /\ last.completed

\* C23 witness: an acceptCurrentChange on an empty queue, although the
\* document holds a mismatch
C23_Witness ==
  /\ last.op = "acceptOne"
  /\ last.errors = <<>>
  /\ errors = <<>>
  /\ SoloQueue(doc) /= <<>>

\* C24: after every scan without failure the flagged tokens are exactly
\* the tokens of the new queue, whatever scans, accepts and rejects came
\* before.
C24_FlagsAreQueue ==
  Ran("scan") =>
    {i \in 1..Len(doc) : hl[i] = HIGHLIGHT_COLOR} = Ranges(errors)

\* C25: when a sync fails during acceptCurrentChange or
\* rejectCurrentChange and the host applied nothing of the entry's
\* resolution, the entry is still queued.
C25_FailedOneKeepsEntry ==
  (/\ last.op \in {"acceptOne", "rejectOne"}
   /\ ~last.ok
   /\ doc = last.doc /\ hl = last.hl)
  => errors = last.errors

\* C30: after a scan without failure that queued something the selection
\* is on the first entry's location; after an acceptCurrentChange or
\* rejectCurrentChange that leaves entries it is on the new head's
\* location; a scan that finds nothing leaves the selection and shows the
\* "no mismatches" notice.
C30_SelectionOnHead ==
  /\ (Ran("scan") /\ errors /= <<>>) => sel = errors[1].range
  /\ (Ran("scan") /\ errors = <<>>) => sel = last.sel /\ notif = "noMismatches"
  /\ (/\ last.op \in {"acceptOne", "rejectOne"} /\ last.ok
      /\ last.errors /= <<>> /\ errors /= <<>>)
     => sel = errors[currentIndex + 1].range

\* C30 witness: a rejectCurrentChange moved the selection to the new head
C30_Witness ==
  /\ Ran("rejectOne")
  /\ Len(last.errors) = 2
  /\ Len(errors) = 1
  /\ sel = errors[1].range
  /\ sel /= last.sel

\* the first letter or digit of a text, composed and with the case ignored,
\* a digit standing for the first letter of its name; Null when the text
\* holds neither
FirstSound(w) ==
  LET n == normalizeNFC(w) IN
  IF \A i \in 1..Len(n) : n[i] \notin Letters \cup Digits THEN Null
  ELSE LET i == CHOOSE i \in 1..Len(n) :
                  /\ n[i] \in Letters \cup Digits
                  /\ \A j \in 1..(i - 1) : n[j] \notin Letters \cup Digits
       IN IF n[i] \in Digits THEN digitMap[n[i]] ELSE LowerOf(n[i])

BeginsWithSound(w) == trim(normalizeNFC(w)) /= <<>> /\
                      Head(trim(normalizeNFC(w))) \in Letters \cup Digits

C22_KHSkipsPunctuation ==
  /\ (result \notin {"pending", "unused"} /\ rawWord[2] \in {"s", "z", "k", "h"})
     => LET sound == FirstSound(rawWord[1]) IN
        result = CASE sound = Null -> Null
                   [] rawWord[2] \in {"s", "z"} ->
                        (IF sound \in UnvoicedSounds THEN "s" ELSE "z")
                   [] OTHER -> (IF sound \in {"k", "g"} THEN "h" ELSE "k")
  /\ (last.op \in {"scan", "acceptAll"} /\ last.ok) =>
       \A i \in 1..(Len(doc) - 1) :
         (Len(last.doc[i]) = 1 /\ FirstSound(last.doc[i + 1]) = Null)
         => /\ doc[i] = last.doc[i]
            /\ hl[i] /= HIGHLIGHT_COLOR

\* C27: in the cursor variant, with acceptCurrentChange and
\* rejectCurrentChange invocations overlapping, every entry the cursor has
\* moved past was accepted or rejected: its flag is cleared.
C27_CursorPassesResolved ==
  \A i \in 1..Len(errors) :
    i <= currentIndex => hl[errors[i].range] = NoColor

\* C28: in the cursor variant, acceptAllChanges leaves the text of every
\* token rejected since the last scan.
C28_RejectedStaysOut ==
  Ran("acceptAll") => \A r \in last.rejected : doc[r] = last.doc[r]

\* C26: in the splice variant, when a scan and the acceptAllChanges that
\* ran during it have both finished, every token the scan newly flagged
\* and whose text was not replaced is in the queue (so the scan did not end
\* with the "no mismatches" notice while such a flag is up).
C26_OverlapKeepsMismatch ==
  (inflight = <<>> /\ last.op \in {"scan", "acceptAll"} /\ last.ok) =>
    \A r \in 1..Len(doc) :
      (hl[r] = HIGHLIGHT_COLOR /\ last.hl[r] = NoColor /\ doc[r] = last.doc[r])
      => r \in Ranges(errors)

\* C29: in the splice variant a scan step that enqueues a token finds the
\* token a mismatch on the text the host holds at that step.
C29_EnqueuedOnCurrentText ==
  [][Len(errors') = Len(errors) + 1
     => IsMismatch(doc, errors'[Len(errors')].range)]_vars

\* C33: acceptCurrentChange without failure on a non-empty queue changes
\* the text of exactly one token, the one it removed from the queue; every
\* other token keeps its text and every entry left keeps its suggestion.
C33_AcceptOneFrame ==
  (Ran("acceptOne") /\ last.errors /= <<>>) =>
    LET e == last.errors[last.currentIndex + 1] IN
    /\ doc[e.range] = <<e.suggestion>>
    /\ doc[e.range] /= last.doc[e.range]
    /\ \A r \in 1..Len(doc) : r /= e.range => doc[r] = last.doc[r]
    /\ errors = SpliceAt(last.errors, last.currentIndex)

\* C33 witness: an acceptCurrentChange replaced one token of three and left
\* an entry queued
C33_Witness ==
  /\ Ran("acceptOne")
  /\ Len(last.errors) = 2
  /\ Len(errors) = 1
  /\ Len(doc) = 3
  /\ Cardinality({r \in 1..Len(doc) : doc[r] /= last.doc[r]}) = 1

\* C35: every entry of the queue has a suggestion that differs, case
\* ignored, from the text now at its location.
C35_SuggestionDiffers ==
  \A i \in 1..Len(errors) :
    toLowerCase(trim(doc[errors[i].range])) /= <<errors[i].suggestion>>

\* the entry at location r weighs 2^r: fixing a token can only make the
\* token before it wrong, which weighs less
RECURSIVE QueueWeight(_)
QueueWeight(q) ==
  IF q = <<>> THEN 0 ELSE 2 ^ (Head(q).range) + QueueWeight(Tail(q))

\* C31: in the re-scan variant every acceptCurrentChange on a non-empty
\* queue leaves a queue of strictly smaller weight, a natural number that
\* is 0 only for the empty queue; so acceptCurrentChange called again and
\* again reaches an empty queue, also on runs of adjacent prepositions.
C31_AcceptLoopEnds ==
  (Ran("acceptOne") /\ last.errors /= <<>>) =>
    QueueWeight(errors) < QueueWeight(last.errors)

\* C31 witness: the queue was emptied by fixing token 1, which the fix of
\* token 2 had made wrong
C31_Witness ==
  /\ Ran("acceptOne")
  /\ errors = <<>>
  /\ last.errors = <<[range |-> 1, suggestion |-> "z"]>>
  /\ last.doc = <<<<"s">>, <<"z">>, <<"z">>>>
  /\ doc = <<<<"z">>, <<"z">>, <<"z">>>>

\* C34: in the re-scan variant, checkDocumentText, acceptCurrentChange and
\* rejectCurrentChange leave the highlight of text that the add-in never
\* flags (text that is no "s"/"z" token) as it was.
C34_UserHighlightKept ==
  (last.op \in {"scan", "acceptOne", "rejectOne"} /\ last.ok) =>
    \A i \in 1..Len(doc) :
      ~IsSZ(trim(last.doc[i])) => hl[i] = last.hl[i]

\* the last location at which a scan of document d finds a mismatch, 0 when
\* it finds none
LastMismatch(d) ==
  LET R == Ranges(SoloQueue(d)) IN
  IF R = {} THEN 0 ELSE CHOOSE r \in R : \A x \in R : x <= r

\* C32: in the splice variant a round (scan, acceptAllChanges) on a
\* document with mismatches leaves a document whose last mismatch lies
\* strictly before the former one, so that after at most as many rounds as
\* the document has tokens a scan yields an empty queue; a round on such a
\* document changes neither text nor flags and leaves the queue empty.
C32_RoundsConverge ==
  /\ (Ran("acceptAll") /\ last.round = 2 /\ last.errors /= <<>>) =>
       /\ LastMismatch(doc) < LastMismatch(last.doc)
       /\ errors = <<>>
  /\ (Ran("acceptAll") /\ last.round = 2 /\ last.errors = <<>>) =>
       /\ doc = last.doc /\ hl = last.hl /\ errors = <<>>
  /\ (Ran("scan") /\ errors = <<>>) =>
       /\ doc = last.doc /\ hl = last.hl

\* C32 witness: a round fixed two tokens and left a mismatch for the next
\* round
C32_Witness ==
  /\ Ran("acceptAll")
  /\ last.round = 2
  /\ Len(last.errors) = 2
  /\ SoloQueue(doc) /= <<>>
  /\ LastMismatch(doc) < LastMismatch(last.doc)

====
